---------------------------- MODULE Spec2Model ----------------------------
(***************************************************************************)
(* Noema-Bot: the column classifier (numeric_cols), the per-file analysis  *)
(* (analyze_one) and the two pipeline entry points (scripts/analyze.py     *)
(* main, scri/analyze.py main).                                            *)
(*                                                                         *)
(* Strings are sequences of one-character strings, so that the regular     *)
(* expression, the suffix dispatch, the sort order and the ".png" test are *)
(* computed character by character as the code computes them.              *)
(* Numbers are kept in halves: the cell value v stands for v/2, so 1 is    *)
(* 0.5 and every even value is integral.  NaN is the missing marker.       *)
(***************************************************************************)
EXTENDS Integers, Sequences, FiniteSets, TLC

\* ------------------------------------------------------------------ bounds
\* rows of a single-column table handed to the classifier
MaxRows == 4
\* largest integer cell value (cells are 0.5 and the integers 0..MaxInt)
MaxInt == 2
\* columns of a multi-column table handed to the classifier
MaxCols == 3
\* largest value of the --n option
MaxLimit == 2

\* ------------------------------------------------------------- characters
Lowers == <<"a","b","c","d","e","f","g","h","i","j","k","l","m",
            "n","o","p","q","r","s","t","u","v","w","x","y","z">>
Uppers == <<"A","B","C","D","E","F","G","H","I","J","K","L","M",
            "N","O","P","Q","R","S","T","U","V","W","X","Y","Z">>
Digits == <<"0","1","2","3","4","5","6","7","8","9">>

IndexIn(c, seq) == IF \E i \in 1..Len(seq) : seq[i] = c
                   THEN CHOOSE i \in 1..Len(seq) : seq[i] = c
                   ELSE 0

\* str.lower() on one character
LowerOf == [u \in {Uppers[i] : i \in 1..Len(Uppers)} |-> Lowers[IndexIn(u, Uppers)]]
LowerChar(c) == IF c \in DOMAIN LowerOf THEN LowerOf[c] ELSE c

\* str.lower()
Lower(s) == [i \in 1..Len(s) |-> LowerChar(s[i])]

\* the code point of a character (ASCII), which is what str comparison uses
Ord(c) ==
    IF IndexIn(c, Lowers) > 0 THEN 96 + IndexIn(c, Lowers)
    ELSE IF IndexIn(c, Uppers) > 0 THEN 64 + IndexIn(c, Uppers)
    ELSE IF IndexIn(c, Digits) > 0 THEN 47 + IndexIn(c, Digits)
    ELSE CASE c = " " -> 32
           [] c = "(" -> 40
           [] c = ")" -> 41
           [] c = "-" -> 45
           [] c = "." -> 46
           [] c = "/" -> 47
           [] c = ":" -> 58
           [] c = ">" -> 62
           [] c = "_" -> 95
           [] OTHER   -> 127

\* s < t for Python str
RECURSIVE StrLess(_, _)
StrLess(s, t) ==
    IF t = <<>> THEN FALSE
    ELSE IF s = <<>> THEN TRUE
    ELSE IF Ord(Head(s)) < Ord(Head(t)) THEN TRUE
    ELSE IF Ord(Head(s)) > Ord(Head(t)) THEN FALSE
    ELSE StrLess(Tail(s), Tail(t))

\* str.endswith
EndsWith(s, suf) ==
    /\ Len(s) >= Len(suf)
    /\ SubSeq(s, Len(s) - Len(suf) + 1, Len(s)) = suf

\* the last index of character c in s, 0 when absent (str.rfind + 1)
RFind(s, c) == IF \E i \in 1..Len(s) : s[i] = c
               THEN CHOOSE i \in 1..Len(s) :
                        s[i] = c /\ \A j \in (i+1)..Len(s) : s[j] # c
               ELSE 0

\* ------------------------------------------------------------------ pathlib
\* Path.name: the final path component
PathName(p) == SubSeq(p, RFind(p, "/") + 1, Len(p))

\* Path.suffix: the last dot-extension of the final component, "" when the
\* only dot leads the name or the name ends with a dot
PathSuffix(p) ==
    LET nm == PathName(p)
        i  == RFind(nm, ".")
    IN  IF i > 1 /\ i < Len(nm) THEN SubSeq(nm, i, Len(nm)) ELSE <<>>

\* Path.stem: the final component without its suffix
PathStem(p) ==
    LET nm == PathName(p)
    IN  SubSeq(nm, 1, Len(nm) - Len(PathSuffix(p)))

\* the first index of character c in s, 0 when absent (str.find + 1)
Find(s, c) == IF \E i \in 1..Len(s) : s[i] = c
              THEN CHOOSE i \in 1..Len(s) :
                       s[i] = c /\ \A j \in 1..(i-1) : s[j] # c
              ELSE 0

\* Path.parts: the components between the separators
RECURSIVE PathParts(_)
PathParts(p) ==
    IF p = <<>> THEN <<>>
    ELSE LET i == Find(p, "/")
         IN  IF i = 0 THEN <<p>>
             ELSE <<SubSeq(p, 1, i - 1)>> \o PathParts(SubSeq(p, i + 1, Len(p)))

\* ------------------------------------------------------------------- tables
\* the missing marker of a numeric column
NaN == -1
\* a cell of a non-numeric column (a string that is no number); cells below
\* it are other strings
Txt == -2

\* the cell values of a numeric column: missing, 0.5, and 0..MaxInt
Values == {NaN, 1} \cup {2 * k : k \in 0..MaxInt}

\* A DataFrame is the sequence of its columns, in column order; a column is
\* [name, dtype, vals] and all columns of a frame have the same length.
NRows(frame) == IF frame = <<>> THEN 0 ELSE Len(frame[1].vals)

\* df[col]
ColumnOf(frame, col) ==
    frame[CHOOSE i \in 1..Len(frame) : frame[i].name = col]

\* the position of column col in the frame
ColumnIndex(frame, col) == CHOOSE i \in 1..Len(frame) : frame[i].name = col

\* df.select_dtypes(include="number").columns.tolist()
IsNumberColumn(c) == c.dtype = "number"
select_dtypes_number(frame) ==
    LET nums == SelectSeq(frame, IsNumberColumn)
    IN  [i \in 1..Len(nums) |-> nums[i].name]

\* -------------------------------------------------------------- heuristics
IdTokens == { <<"i","d">>,
              <<"u","u","i","d">>,
              <<"i","n","d","e","x">>,
              <<"s","a","m","p","l","e","i","d">>,
              <<"s","u","b","j","e","c","t","i","d">>,
              <<"r","e","c","o","r","d","i","d">>,
              <<"c","a","s","e","i","d">>,
              <<"p","a","t","i","e","n","t","i","d">> }

\* bool(ID_LIKE_PATTERN.search(col)): some token, compared ignoring case,
\* starts at the start or after "_" and ends at the end (or before a final
\* newline, as "$" allows) or before "_"
ID_LIKE_PATTERN(col) ==
    LET lowered == Lower(col)
    IN  \E i \in 1..Len(col), tok \in IdTokens :
            LET j == i + Len(tok) - 1
            IN  /\ (i = 1 \/ col[i-1] = "_")
                /\ j <= Len(col)
                /\ \/ j = Len(col)
                   \/ col[j+1] = "_"
                   \/ (j + 1 = Len(col) /\ col[j+1] = "\n")
                /\ SubSeq(lowered, i, j) = tok

\* pd.to_numeric(df[col], errors="coerce").dropna()
IsPresent(v) == v >= 0
dropna(vals) == SelectSeq(vals, IsPresent)

\* Series.nunique()
nunique(s) == Cardinality({s[i] : i \in 1..Len(s)})

\* is_integer_dtype(s_non) or np.all(np.floor(s_non) == s_non)
is_intish(s) == \A i \in 1..Len(s) : s[i] % 2 = 0

\* Series.is_monotonic_increasing / is_monotonic_decreasing
is_monotonic_increasing(s) == \A i \in 1..(Len(s) - 1) : s[i] <= s[i+1]
is_monotonic_decreasing(s) == \A i \in 1..(Len(s) - 1) : s[i] >= s[i+1]

\* max(len(s_non), 1)
Max(a, b) == IF a >= b THEN a ELSE b

\* the name rule's threshold taken as 0.8
RatioOverHalf_FourFifths(s) == 5 * nunique(s) > 4 * Max(Len(s), 1)

\* unique_ratio > 0.5 and unique_ratio > 0.8, with
\* unique_ratio = s_non.nunique() / max(len(s_non), 1)
RatioOverHalf(s) == 2 * nunique(s) > Max(Len(s), 1)
RatioOverFourFifths(s) == 5 * nunique(s) > 4 * Max(Len(s), 1)

\* is_intish and (monotonic increasing or decreasing)
is_monotonic_index(s) ==
    is_intish(s) /\ (is_monotonic_increasing(s) \/ is_monotonic_decreasing(s))

\* the skip condition without the monotonic-index signal
LikelyId_NoMonotonic(col, s) ==
    \/ (ID_LIKE_PATTERN(col) /\ (RatioOverHalf(s) \/ is_intish(s)))
    \/ (is_intish(s) /\ RatioOverFourFifths(s))

\* the skip condition of lines 76-77
LikelyId(col, s) ==
    \/ (ID_LIKE_PATTERN(col) /\ (RatioOverHalf(s) \/ is_intish(s)))
    \/ (is_intish(s) /\ (RatioOverFourFifths(s) \/ is_monotonic_index(s)))

\* one pass of the loop body: the reason the column is skipped, or "" when
\* it is appended to candidates
SkipReason(frame, col) ==
    LET s_non == dropna(ColumnOf(frame, col).vals)
    IN  IF s_non = <<>> THEN "all-NaN"
        ELSE IF nunique(s_non) <= 1 THEN "constant"
        ELSE IF LikelyId(col, s_non) THEN "likely-ID/index"
        ELSE ""

\* the loop over num_cols: candidates in column order
Candidates(frame) ==
    LET IsCandidate(col) == SkipReason(frame, col) = ""
    IN  SelectSeq(select_dtypes_number(frame), IsCandidate)

\* the loop over num_cols: the skipped dict
Skipped(frame) ==
    LET nums == select_dtypes_number(frame)
        skippedNames == {nums[i] : i \in 1..Len(nums)} \ 
                        {c \in {nums[i] : i \in 1..Len(nums)} : SkipReason(frame, c) = ""}
    IN  [c \in skippedNames |-> SkipReason(frame, c)]

\* df[c].isna().mean() as the fraction num/den
MissingCount(frame, col) ==
    LET v == ColumnOf(frame, col).vals
    IN  Cardinality({i \in 1..Len(v) : v[i] = NaN})

\* the sort key compared with <=, which makes the insertion unstable
KeyLess_OrEqual(frame, a, b) ==
    MissingCount(frame, a) * NRows(frame) <= MissingCount(frame, b) * NRows(frame)

\* key(a) < key(b) for key = df[c].isna().mean(); both columns have the
\* frame's row count, so the fractions compare as their numerators
KeyLess(frame, a, b) ==
    MissingCount(frame, a) * NRows(frame) < MissingCount(frame, b) * NRows(frame)

\* list.sort(key=...): stable, an element goes after every element whose
\* key is not greater
RECURSIVE InsertByKey(_, _, _)
InsertByKey(frame, sorted, x) ==
    IF sorted = <<>> THEN <<x>>
    ELSE IF KeyLess(frame, x, Head(sorted)) THEN <<x>> \o sorted
    ELSE <<Head(sorted)>> \o InsertByKey(frame, Tail(sorted), x)

RECURSIVE SortByMissing(_, _)
SortByMissing(frame, cands) ==
    IF cands = <<>> THEN <<>>
    ELSE InsertByKey(frame,
                     SortByMissing(frame, SubSeq(cands, 1, Len(cands) - 1)),
                     cands[Len(cands)])

\* An optional int is a set: {} is None, {k} is the int k.
None == {}
Some(k) == {k}

\* candidates[:limit]
Slice(seq, k) == SubSeq(seq, 1, IF k < Len(seq) THEN k ELSE Len(seq))

\* the cap taken one short: candidates[:limit - 1]
Truncate_OffByOne(cands, lim) ==
    IF \E k \in lim : k # 0 /\ k > 0
    THEN Slice(cands, (CHOOSE k \in lim : TRUE) - 1)
    ELSE cands

\* if limit and limit > 0: candidates = candidates[:limit]
Truncate(cands, lim) ==
    IF \E k \in lim : k # 0 /\ k > 0
    THEN Slice(cands, CHOOSE k \in lim : TRUE)
    ELSE cands

\* numeric_cols(df, limit) -> (kept_columns, skipped_reason_dict)
numeric_cols(frame, lim) ==
    [kept    |-> Truncate(SortByMissing(frame, Candidates(frame)), lim),
     skipped |-> Skipped(frame)]

\* ------------------------------------------------------------ the data files
DATA_DIR == <<"d","a","t","a">>

\* str(DATA_DIR / rel)
DataPath(rel) == DATA_DIR \o <<"/">> \o rel

\* two tables: T_trial has an identifier column, a measure with a missing
\* cell, a measure whose name holds a path separator, and a label column;
\* T_flag has one constant column
Control == -2
Treatment == -3
T_trial ==
    << [name  |-> <<"s","u","b","j","e","c","t","_","i","d">>, dtype |-> "number",
        vals  |-> <<2, 4, 6, 8, 10, 12, 14>>],
       [name  |-> <<"s","c","o","r","e">>, dtype |-> "number",
        vals  |-> <<1, 3, NaN, 1, 3, 1, 3>>],
       [name  |-> <<"a","/","b">>, dtype |-> "number",
        vals  |-> <<1, 0, 1, 0, 1, 0, 1>>],
       [name  |-> <<"g","r","o","u","p">>, dtype |-> "object",
        vals  |-> <<Control, Control, Control, Control,
                    Treatment, Treatment, Treatment>>] >>
T_flag ==
    << [name  |-> <<"f","l","a","g">>, dtype |-> "number", vals |-> <<2, 2, 2>>] >>

\* the files that may lie under data/ (paths relative to data/) and what
\* each holds: a table, or bytes its reader cannot parse
FileUniverse == { <<"a",".","c","s","v">>, <<"a","/","b",".","c","s","v">>, <<"b",".","t","x","t">>, <<"c",".","X","L","S">>, <<"d",".","j","s","o","n">> }
FileContent(rel) ==
    CASE rel = <<"a",".","c","s","v">>   -> [parses |-> TRUE,  frame |-> T_trial]
      [] rel = <<"a","/","b",".","c","s","v">> -> [parses |-> TRUE,  frame |-> T_flag]
      [] rel = <<"d",".","j","s","o","n">>  -> [parses |-> TRUE,  frame |-> T_flag]
      [] OTHER             -> [parses |-> FALSE, frame |-> <<>>]

\* pd.read_csv / pd.read_excel / pd.read_json: the table, or the parser's error
ParseError == <<"p","a","r","s","e"," ","e","r","r","o","r">>
read_file(rel) ==
    IF FileContent(rel).parses
    THEN [ok |-> TRUE, frame |-> FileContent(rel).frame, error |-> <<>>]
    ELSE [ok |-> FALSE, frame |-> <<>>, error |-> ParseError]

\* scripts/analyze.py load_table
load_table(rel) ==
    LET suf == Lower(PathSuffix(rel))
    IN  IF suf = <<".","c","s","v">> THEN read_file(rel)
        ELSE IF suf \in {<<".","x","l","s">>, <<".","x","l","s","x">>} THEN read_file(rel)
        ELSE IF suf = <<".","j","s","o","n">> THEN read_file(rel)
        ELSE [ok |-> FALSE, frame |-> <<>>,
              error |-> <<"U","n","s","u","p","p","o","r","t","e","d"," ","f","i","l","e",":"," ">> \o PathName(rel)]

\* a glob that keeps text files too
RecognizedSuffixes_WithTxt ==
    {<<".","c","s","v">>, <<".","x","l","s">>, <<".","x","l","s","x">>, <<".","j","s","o","n">>, <<".","t","x","t">>}

\* the suffixes main's glob keeps
RecognizedSuffixes == {<<".","c","s","v">>, <<".","x","l","s">>, <<".","x","l","s","x">>, <<".","j","s","o","n">>}

\* str.strip() of the FILE variable (spaces)
RECURSIVE LStrip(_)
LStrip(s) == IF s # <<>> /\ Head(s) = " " THEN LStrip(Tail(s)) ELSE s
RECURSIVE RStrip(_)
RStrip(s) == IF s # <<>> /\ s[Len(s)] = " "
             THEN RStrip(SubSeq(s, 1, Len(s) - 1)) ELSE s
Strip(s) == RStrip(LStrip(s))

\* the orders in which glob may yield the files of a set
Orders(S) ==
    {o \in [1..Cardinality(S) -> S] : \A i, j \in 1..Cardinality(S) : i # j => o[i] # o[j]}

\* sorted(targets, key=lambda x: str(x))
RECURSIVE InsertByStr(_, _)
InsertByStr(sorted, x) ==
    IF sorted = <<>> THEN <<x>>
    ELSE IF StrLess(DataPath(x), DataPath(Head(sorted))) THEN <<x>> \o sorted
    ELSE <<Head(sorted)>> \o InsertByStr(Tail(sorted), x)

RECURSIVE SortedByStr(_)
SortedByStr(seq) ==
    IF seq = <<>> THEN <<>>
    ELSE InsertByStr(SortedByStr(SubSeq(seq, 1, Len(seq) - 1)), seq[Len(seq)])

\* --------------------------------------------------------------- analyze_one
\* OUT_DIR / f"{name}_{col}_hist.png", relative to OUT_DIR
OutPng(rel, col) == PathStem(rel) \o <<"_">> \o col \o <<"_","h","i","s","t",".","p","n","g">>

\* OUT_DIR / f"{name}_summary.csv", relative to OUT_DIR
SummaryCsv(rel) == PathStem(rel) \o <<"_","s","u","m","m","a","r","y",".","c","s","v">>

\* f"(failed: {col} -> {e})"
FailedEntry(col, e) == <<"(","f","a","i","l","e","d",":"," ">> \o col \o <<" ","-",">"," ">> \o e \o <<")">>

\* the messages a failed plot may carry
PlotErrors == { <<"n","o"," ","n","u","m","e","r","i","c"," ","d","a","t","a">>, <<"c","a","n","n","o","t"," ","s","a","v","e"," ","x",".","p","n","g">> }

\* the message of a failed describe().T.to_csv()
SummaryError == <<"c","a","n","n","o","t"," ","w","r","i","t","e"," ","s","u","m","m","a","r","y">>

\* ', '.join(cols) if cols else the dash
RECURSIVE Join(_)
Join(cols) ==
    IF cols = <<>> THEN <<>>
    ELSE IF Len(cols) = 1 THEN cols[1]
    ELSE cols[1] \o <<",", " ">> \o Join(Tail(cols))
NumericLine(cols) == IF cols # <<>> THEN Join(cols) ELSE <<"-">>

\* the image test as "'.png' in nm" instead of nm.endswith(".png")
PlotLine_AnyPng(nm) ==
    IF \E i \in 1..Len(nm) : i + 3 <= Len(nm) /\ SubSeq(nm, i, i + 3) = <<".","p","n","g">>
    THEN [kind |-> "image", text |-> nm]
    ELSE [kind |-> "item", text |-> nm]

\* the line a plots entry becomes: an image reference when the entry ends
\* with ".png", a list item otherwise
PlotLine(nm) ==
    IF EndsWith(nm, <<".","p","n","g">>)
    THEN [kind |-> "image", text |-> nm]
    ELSE [kind |-> "item", text |-> nm]

\* the preview block appended when SHOW_SUMMARY=1: the table, or the note
\* that it is unavailable
PreviewLines(show, previewOk) ==
    IF ~show THEN <<>>
    ELSE IF previewOk THEN <<[kind |-> "details", text |-> <<"p","r","e","v","i","e","w">>]>>
    ELSE <<[kind |-> "note", text |-> <<"S","u","m","m","a","r","y"," ","p","r","e","v","i","e","w"," ","u","n","a","v","a","i","l","a","b","l","e">>]>>

\* the lines of the report fragment of one file
ReportLines(rel, frame, cols, plots, show, previewOk) ==
    << [kind |-> "heading", text |-> PathName(rel)],
       [kind |-> "shape",   text |-> <<NRows(frame), Len(frame)>>],
       [kind |-> "numeric", text |-> NumericLine(cols)],
       [kind |-> "summary", text |-> PathName(SummaryCsv(rel))],
       [kind |-> "blank",   text |-> <<>>],
       [kind |-> "heading", text |-> <<"D","i","s","t","r","i","b","u","t","i","o","n","s">>] >>
    \o [i \in 1..Len(plots) |-> PlotLine(plots[i])]
    \o PreviewLines(show, previewOk)

\* the dict analyze_one returns (main's normalisation str() changes nothing:
\* every field is already a string)
AnalysisResult(rel, frame, cols, plots, show, previewOk) ==
    [data_file   |-> DataPath(rel),
     summary_csv |-> SummaryCsv(rel),
     plots       |-> plots,
     report_md   |-> ReportLines(rel, frame, cols, plots, show, previewOk)]

\* ----------------------------------------------------------------- dashboard
\* _qd_anchor_from_heading: lower-case, every run outside [a-z0-9] removed
IsAnchorChar(c) == IndexIn(c, Lowers) > 0 \/ IndexIn(c, Digits) > 0
_qd_anchor_from_heading(text) == SelectSeq(Lower(text), IsAnchorChar)

\* the first plots entry whose lower-cased text ends with ".png", "" if none
IsPngEntry(p) == EndsWith(Lower(p), <<".","p","n","g">>)
Thumb(plots) ==
    LET pngsOnly == SelectSeq(plots, IsPngEntry)
    IN  IF pngsOnly = <<>> THEN <<>> ELSE PathName(pngsOnly[1])

\* one card of the dashboard
Card(item) ==
    [kind    |-> "card",
     name    |-> PathName(item.data_file),
     anchor  |-> _qd_anchor_from_heading(PathName(item.data_file)),
     summary |-> PathName(item.summary_csv),
     thumb   |-> Thumb(item.plots)]

\* build_dashboard without the empty-state fallback
build_dashboard_NoEmptyState(items) ==
    [i \in 1..Len(items) |-> Card(items[i])]

\* build_dashboard(outputs): the entries under the dashboard's header.  The
\* try body reads keys main has set and cannot raise on main's items.
build_dashboard(items) ==
    LET cards == [i \in 1..Len(items) |-> Card(items[i])]
    IN  IF cards # <<>> THEN cards
        ELSE <<[kind |-> "empty", text |-> "_No datasets found._"]>>

\* ------------------------------------------------------------------- state
VARIABLES
    pc,            \* the position of the running function
    df,            \* the DataFrame being classified / analyzed
    limit,         \* the limit argument of numeric_cols (n_limit in main)
    kept,          \* numeric_cols' first result (cols in analyze_one)
    skipped,       \* numeric_cols' second result
    fs,            \* the files under data/, as paths relative to it
    FILE,          \* the FILE environment variable
    n,             \* the --n option
    SHOW_SUMMARY,  \* the SHOW_SUMMARY environment variable is "1"
    targets,       \* main's targets (files in scri)
    idx,           \* the index in targets of the file being analyzed
    pngs,          \* analyze_one's pngs, one entry per column plotted so far
    blocks,        \* main's blocks
    outputs,       \* main's outputs (results in scri)
    written        \* the aggregate artifacts written by this run, by name

vars == <<pc, df, limit, kept, skipped, fs, FILE, n, SHOW_SUMMARY,
          targets, idx, pngs, blocks, outputs, written>>

envVars == <<fs, FILE, n, SHOW_SUMMARY>>
runVars == <<targets, idx, pngs, blocks, outputs, written>>

\* ------------------------------------------------- the classifier's inputs
\* column names of the single-column tables
NamePool == { <<"i","d">>,
              <<"S","a","m","p","l","e","_","I","D">>,
              <<"i","d","x">>,
              <<"v","a","l","i","d">>,
              <<"u","u","i","d","_","v">>,
              <<"s","c","o","r","e">>,
              <<"a","/","b">> }

\* a single-column table: a name and a fill of MaxRows cells
DeepFrame(nm, v) == << [name |-> nm, dtype |-> "number", vals |-> v] >>

\* the name of the i-th column of a multi-column table
WideName(i) ==
    CASE i = 1 -> <<"s","c","o","r","e">>
      [] i = 2 -> <<"a","/","b">>
      [] i = 3 -> <<"p",".","q">>
      [] i = 4 -> <<"x","_","i","d">>
      [] OTHER -> <<"c", Digits[(i % 10) + 1]>>

\* rows of the multi-column tables
WideRows == MaxRows - 1

\* the columns of the multi-column tables: one text column, and the numeric
\* columns of zeros, then halves, then missing cells, in every proportion
\* (the row order of such a column changes none of the classifier's signals:
\* its integral columns are constant)
WideColumns ==
    { [dtype |-> "object", vals |-> [i \in 1..WideRows |-> Txt]] } \cup
    { [dtype |-> "number",
       vals  |-> [i \in 1..WideRows |->
                    IF i <= z THEN 0 ELSE IF i <= z + h THEN 1 ELSE NaN]] :
        z \in 0..WideRows, h \in 0..WideRows }

\* a multi-column table: the columns f, named by position
WideFrame(f) ==
    [i \in 1..Len(f) |-> [name  |-> WideName(i),
                          dtype |-> f[i].dtype,
                          vals  |-> f[i].vals]]

\* the limit arguments
Limits == {None} \cup {Some(k) : k \in (-1)..MaxLimit}

\* --------------------------------------------------- SpecClassifier
\* numeric_cols applied to one table with one limit
InitClassifier ==
    /\ pc = "input"
    /\ \/ \E nm \in NamePool, v \in [1..MaxRows -> Values] : df = DeepFrame(nm, v)
       \/ \E c \in 0..MaxCols : \E f \in [1..c -> WideColumns] : df = WideFrame(f)
    /\ limit = None
    /\ kept = <<>>
    /\ skipped = <<>>
    /\ fs = {} /\ FILE = <<>> /\ n = 0 /\ SHOW_SUMMARY = FALSE
    /\ targets = <<>> /\ idx = 0 /\ pngs = <<>>
    /\ blocks = <<>> /\ outputs = <<>> /\ written = <<>>

CallNumericCols ==
    /\ pc = "input"
    /\ \E lim \in Limits :
        LET result == numeric_cols(df, lim)
        IN  /\ limit' = lim
            /\ kept' = result.kept
            /\ skipped' = result.skipped
    /\ pc' = "classified"
    /\ UNCHANGED <<df, envVars, runVars>>

NextClassifier == CallNumericCols

SpecClassifier == InitClassifier /\ [][NextClassifier]_vars

\* --------------------------------------------------- Spec: scripts/analyze.py
\* the file being analyzed
CurrentFile == targets[idx]

\* the recognized-format files under data/
Globbed == {f \in fs : Lower(PathSuffix(f)) \in RecognizedSuffixes}

\* targets before the sort: the FILE override when it names an existing file,
\* otherwise the glob's files in the order the glob yields them
Discovered(order) ==
    LET only == Strip(FILE)
    IN  IF only # <<>> /\ only \in fs THEN <<only>> ELSE order

NoDataNote == "No data files in data/. Nothing to analyze."
ReportHeader == [kind |-> "header"]

\* f"- **{fp.name}** X {e}"
FailureNotice(rel, e) == [kind |-> "failure", file |-> PathName(rel), error |-> e]

\* a run starts with nothing analyzed and nothing written
Init ==
    /\ pc = "main"
    /\ fs \in SUBSET FileUniverse
    /\ FILE \in { <<>>, <<"a",".","c","s","v">>, <<" ","b",".","t","x","t"," ">> }
    /\ n \in (-1)..MaxLimit
    /\ SHOW_SUMMARY \in BOOLEAN
    /\ df = <<>> /\ limit = None /\ kept = <<>> /\ skipped = <<>>
    /\ targets = <<>> /\ idx = 0 /\ pngs = <<>>
    /\ blocks = <<>> /\ outputs = <<>> /\ written = <<>>

\* main, lines 213-252: no target, the minimal artifacts are written
MainNoData ==
    /\ pc = "main"
    /\ Discovered(<<>>) = <<>> /\ Globbed = {}
    /\ limit' = IF n = 0 THEN None ELSE Some(n)
    /\ written' = [a \in {"REPORT.md", "noema-report.qd", "dashboard.qd",
                          "report_summary.json"} |->
                     CASE a = "REPORT.md" -> <<[kind |-> "note", text |-> NoDataNote]>>
                       [] a = "report_summary.json" -> [markdown |-> NoDataNote]
                       [] OTHER -> <<[kind |-> "nodata", text |-> NoDataNote]>>]
    /\ pc' = "done"
    /\ UNCHANGED <<df, kept, skipped, envVars, targets, idx, pngs, blocks, outputs>>

\* main, lines 213-259: the targets are found and sorted
MainDiscover ==
    /\ pc = "main"
    /\ \E order \in Orders(Globbed) :
        /\ Discovered(order) # <<>>
        /\ targets' = SortedByStr(Discovered(order))
    /\ limit' = IF n = 0 THEN None ELSE Some(n)
    /\ blocks' = <<ReportHeader>>
    /\ outputs' = <<>>
    /\ idx' = 1
    /\ pc' = "load"
    /\ UNCHANGED <<df, kept, skipped, envVars, pngs, written>>

\* the loop of main moves to the next target, or past the last one
NextFile ==
    /\ idx' = idx + 1
    /\ pc' = IF idx < Len(targets) THEN "load" ELSE "write"
    /\ df' = <<>> /\ kept' = <<>> /\ skipped' = <<>> /\ pngs' = <<>>

\* main's except branch: the failure notice replaces the fragment
FileFails(e) ==
    /\ blocks' = Append(blocks, FailureNotice(CurrentFile, e))
    /\ NextFile
    /\ UNCHANGED <<limit, envVars, targets, outputs, written>>

\* analyze_one, line 102: the table is loaded
LoadTable ==
    /\ pc = "load"
    /\ load_table(CurrentFile).ok
    /\ df' = load_table(CurrentFile).frame
    /\ pc' = "describe"
    /\ UNCHANGED <<limit, kept, skipped, envVars, runVars>>

\* analyze_one, line 102: load_table raises
LoadFails ==
    /\ pc = "load"
    /\ ~load_table(CurrentFile).ok
    /\ FileFails(load_table(CurrentFile).error)

\* analyze_one, lines 105-106: the statistics are written
Describe ==
    /\ pc = "describe"
    /\ pc' = "classify"
    /\ UNCHANGED <<df, limit, kept, skipped, envVars, runVars>>

\* analyze_one, lines 105-106: describe or to_csv raises
DescribeFails ==
    /\ pc = "describe"
    /\ FileFails(SummaryError)

\* analyze_one, lines 109-114: the columns are selected
SelectColumns ==
    /\ pc = "classify"
    /\ kept' = numeric_cols(df, limit).kept
    /\ skipped' = numeric_cols(df, limit).skipped
    /\ pngs' = <<>>
    /\ pc' = "plot"
    /\ UNCHANGED <<df, limit, envVars, targets, idx, blocks, outputs, written>>

\* the column the plot loop is at
PlotColumn == kept[Len(pngs) + 1]

\* analyze_one, lines 118-122: one column is plotted
PlotHist ==
    /\ pc = "plot"
    /\ Len(pngs) < Len(kept)
    /\ pngs' = Append(pngs, PathName(OutPng(CurrentFile, PlotColumn)))
    /\ UNCHANGED <<pc, df, limit, kept, skipped, envVars, targets, idx,
                   blocks, outputs, written>>

\* analyze_one, lines 118-124: plot_hist raises and the entry is a note
PlotFails ==
    /\ pc = "plot"
    /\ Len(pngs) < Len(kept)
    /\ \E e \in PlotErrors : pngs' = Append(pngs, FailedEntry(PlotColumn, e))
    /\ UNCHANGED <<pc, df, limit, kept, skipped, envVars, targets, idx,
                   blocks, outputs, written>>

\* analyze_one, lines 126-165, and main, lines 262-270: the fragment is
\* built, the result is appended to outputs and the fragment to blocks
Assemble ==
    /\ pc = "plot"
    /\ Len(pngs) = Len(kept)
    /\ \E previewOk \in (IF SHOW_SUMMARY THEN BOOLEAN ELSE {TRUE}) :
        LET res == AnalysisResult(CurrentFile, df, kept, pngs,
                                  SHOW_SUMMARY, previewOk)
        IN  /\ outputs' = Append(outputs, res)
            /\ blocks' = Append(blocks, [kind |-> "fragment", lines |-> res.report_md])
    /\ NextFile
    /\ UNCHANGED <<limit, envVars, targets, written>>

\* main, lines 274-300: the four aggregate artifacts are written
WriteReports ==
    /\ pc = "write"
    /\ written' = [a \in {"REPORT.md", "noema-report.qd", "dashboard.qd",
                          "report_summary.json"} |->
                     CASE a = "REPORT.md" -> blocks
                       [] a = "report_summary.json" ->
                            [markdown |-> blocks, items |-> outputs]
                       [] a = "noema-report.qd" -> blocks
                       [] OTHER -> build_dashboard(outputs)]
    /\ pc' = "done"
    /\ UNCHANGED <<df, limit, kept, skipped, envVars, targets, idx, pngs,
                   blocks, outputs>>

Next ==
    \/ MainNoData
    \/ MainDiscover
    \/ LoadTable
    \/ LoadFails
    \/ Describe
    \/ DescribeFails
    \/ SelectColumns
    \/ PlotHist
    \/ PlotFails
    \/ Assemble
    \/ WriteReports

Spec == Init /\ [][Next]_vars

\* ----------------------------------------------- SpecScri: scri/analyze.py
\* scri/analyze.py load_table: no JSON branch, the error carries the path
scri_load_table(rel) ==
    LET suf == Lower(PathSuffix(rel))
    IN  IF suf = <<".","c","s","v">> THEN read_file(rel)
        ELSE IF suf \in {<<".","x","l","s">>, <<".","x","l","s","x">>} THEN read_file(rel)
        ELSE [ok |-> FALSE, frame |-> <<>>,
              error |-> <<"U","n","s","u","p","p","o","r","t","e","d"," ","f","i","l","e",":"," ">> \o DataPath(rel)]

\* the suffixes scri's glob keeps
ScriSuffixes == {<<".","c","s","v">>, <<".","x","l","s">>, <<".","x","l","s","x">>}
ScriGlobbed == {f \in fs : Lower(PathSuffix(f)) \in ScriSuffixes}

\* Path.__lt__: the paths compare as the lists of their parts
RECURSIVE PartsLess(_, _)
PartsLess(a, b) ==
    IF b = <<>> THEN FALSE
    ELSE IF a = <<>> THEN TRUE
    ELSE IF StrLess(Head(a), Head(b)) THEN TRUE
    ELSE IF StrLess(Head(b), Head(a)) THEN FALSE
    ELSE PartsLess(Tail(a), Tail(b))

\* sorted(paths)
RECURSIVE InsertByParts(_, _)
InsertByParts(sorted, x) ==
    IF sorted = <<>> THEN <<x>>
    ELSE IF PartsLess(PathParts(DataPath(x)), PathParts(DataPath(Head(sorted))))
         THEN <<x>> \o sorted
    ELSE <<Head(sorted)>> \o InsertByParts(Tail(sorted), x)

RECURSIVE SortedByParts(_)
SortedByParts(seq) ==
    IF seq = <<>> THEN <<>>
    ELSE InsertByParts(SortedByParts(SubSeq(seq, 1, Len(seq) - 1)), seq[Len(seq)])

\* the first of the candidate names that is a column of the frame, "" if none
FirstColumnAmong(frame, cands) ==
    LET names == {frame[i].name : i \in 1..Len(frame)}
        hits  == SelectSeq(cands, LAMBDA c : c \in names)
    IN  IF hits = <<>> THEN <<>> ELSE hits[1]

\* analyze_file, lines 57-64: the value column, "" for None
guessed_value_col(frame) ==
    LET byName == FirstColumnAmong(frame,
                    << <<"k","s","s">>, <<"s","c","o","r","e">>, <<"d","u","r","a","t","i","o","n">>, <<"l","a","t","e","n","c","y">>, <<"v","a","l","u","e">> >>)
        nums   == select_dtypes_number(frame)
    IN  IF byName # <<>> THEN byName
        ELSE IF nums # <<>> THEN nums[1]
        ELSE <<>>

\* analyze_file, lines 66-70: the group column, "" for None
group_col(frame) ==
    FirstColumnAmong(frame, << <<"c","o","n","d","i","t","i","o","n">>, <<"g","r","o","u","p">>, <<"p","h","a","s","e">>, <<"s","e","s","s","i","o","n">> >>)

\* the distinct non-missing cells of a column, in order of first appearance
Unique(vals) ==
    LET isFirst(i) == vals[i] # NaN /\ \A j \in 1..(i-1) : vals[j] # vals[i]
        firsts == {i \in 1..Len(vals) : isFirst(i)}
        RECURSIVE Collect(_)
        Collect(i) == IF i > Len(vals) THEN <<>>
                      ELSE IF i \in firsts THEN <<vals[i]>> \o Collect(i + 1)
                      ELSE Collect(i + 1)
    IN  Collect(1)

\* maybe_ttest: None (as {}) unless there are two groups of three or more
\* values; the statistic itself is not computed, only that there is one
maybe_ttest(frame, value_col, grp_col) ==
    IF ~\E i \in 1..Len(frame) : frame[i].name = grp_col THEN None
    ELSE LET groups == Unique(ColumnOf(frame, grp_col).vals)
             gv == ColumnOf(frame, grp_col).vals
             vv == ColumnOf(frame, value_col).vals
             sample(g) == {i \in 1..Len(vv) : gv[i] = g /\ vv[i] # NaN}
         IN  IF Len(groups) # 2 THEN None
             ELSE IF Cardinality(sample(groups[1])) < 3
                     \/ Cardinality(sample(groups[2])) < 3 THEN None
             ELSE Some([group_a |-> groups[1], group_b |-> groups[2]])

\* f"{name}_{guessed_value_col}_hist.png" under OUT_DIR, "" when no plot
ScriOutPlot(rel, frame) ==
    IF guessed_value_col(frame) = <<>> THEN <<>>
    ELSE OutPng(rel, guessed_value_col(frame))

\* the dict analyze_file returns for an analyzed file
ScriResult(rel, frame) ==
    LET v == guessed_value_col(frame)
        g == group_col(frame)
        t == IF v # <<>> /\ g # <<>> THEN maybe_ttest(frame, v, g) ELSE None
    IN  [file        |-> DataPath(rel),
         status      |-> "ok",
         report_md   |->
            << [kind |-> "heading",   text |-> PathName(rel)],
               [kind |-> "shape",     text |-> <<NRows(frame), Len(frame)>>],
               [kind |-> "value_col", text |-> v],
               [kind |-> "group_col", text |-> g],
               [kind |-> "summary",   text |-> SummaryCsv(rel)] >>
            \o (IF v # <<>> THEN <<[kind |-> "plot", text |-> ScriOutPlot(rel, frame)]>>
                ELSE <<>>)
            \o (IF t # None THEN <<[kind |-> "t-test", text |-> t]>> ELSE <<>>),
         plot        |-> ScriOutPlot(rel, frame),
         summary_csv |-> SummaryCsv(rel)]

\* the dict analyze_file returns when load_table raised
ScriReadErrorResult(rel, e) ==
    [file |-> DataPath(rel), status |-> "read_error", error |-> e]

ScriNoDataNote == "No data files found in data/."

InitScri ==
    /\ pc = "scri_main"
    /\ fs \in SUBSET FileUniverse
    /\ FILE = <<>> /\ n = 0 /\ SHOW_SUMMARY = FALSE
    /\ df = <<>> /\ limit = None /\ kept = <<>> /\ skipped = <<>>
    /\ targets = <<>> /\ idx = 0 /\ pngs = <<>>
    /\ blocks = <<>> /\ outputs = <<>> /\ written = <<>>

\* main, lines 110-114: no file, only the summary is written
ScriMainNoData ==
    /\ pc = "scri_main"
    /\ ScriGlobbed = {}
    /\ written' = [a \in {"report_summary.json"} |-> [markdown |-> ScriNoDataNote]]
    /\ pc' = "done"
    /\ UNCHANGED <<df, limit, kept, skipped, envVars, targets, idx, pngs,
                   blocks, outputs>>

\* main, lines 110-117: the files are found and sorted
ScriMainDiscover ==
    /\ pc = "scri_main"
    /\ ScriGlobbed # {}
    /\ \E order \in Orders(ScriGlobbed) : targets' = SortedByParts(order)
    /\ blocks' = <<ReportHeader>>
    /\ outputs' = <<>>
    /\ idx' = 1
    /\ pc' = "load"
    /\ UNCHANGED <<df, limit, kept, skipped, envVars, pngs, written>>

\* analyze_file, lines 51-52: the table is loaded
ScriLoad ==
    /\ pc = "load"
    /\ scri_load_table(CurrentFile).ok
    /\ df' = scri_load_table(CurrentFile).frame
    /\ pc' = "describe"
    /\ UNCHANGED <<limit, kept, skipped, envVars, runVars>>

\* analyze_file, lines 53-54, and main, lines 120-122: the read error is
\* returned as data and main appends the failure notice
ScriReadError ==
    /\ pc = "load"
    /\ ~scri_load_table(CurrentFile).ok
    /\ LET res == ScriReadErrorResult(CurrentFile, scri_load_table(CurrentFile).error)
       IN  /\ outputs' = Append(outputs, res)
           /\ blocks' = Append(blocks, [kind |-> "failure", file |-> res.file,
                                        error |-> res.error])
    /\ NextFile
    /\ UNCHANGED <<limit, envVars, targets, written>>

\* analyze_file, lines 73-75: the statistics are written
ScriSummarize ==
    /\ pc = "describe"
    /\ pc' = "plot"
    /\ UNCHANGED <<df, limit, kept, skipped, envVars, runVars>>

\* analyze_file, lines 73-75: describe or to_csv raises; nothing catches it
\* and the process ends with the traceback
ScriSummarizeRaises ==
    /\ pc = "describe"
    /\ pc' = "crashed"
    /\ UNCHANGED <<df, limit, kept, skipped, envVars, runVars>>

\* analyze_file, lines 78-107, and main, lines 120-124: the histogram is
\* drawn when there is a value column, the result is returned and appended
ScriPlotAndReport ==
    /\ pc = "plot"
    /\ LET res == ScriResult(CurrentFile, df)
       IN  /\ outputs' = Append(outputs, res)
           /\ blocks' = Append(blocks, [kind |-> "fragment", lines |-> res.report_md])
    /\ NextFile
    /\ UNCHANGED <<limit, envVars, targets, written>>

\* analyze_file, lines 79-81: plot_hist raises; nothing catches it
ScriPlotRaises ==
    /\ pc = "plot"
    /\ guessed_value_col(df) # <<>>
    /\ pc' = "crashed"
    /\ UNCHANGED <<df, limit, kept, skipped, envVars, runVars>>

\* main, lines 125-130: the summary and the report are written
ScriWriteReports ==
    /\ pc = "write"
    /\ written' = [a \in {"REPORT.md", "report_summary.json"} |->
                     IF a = "REPORT.md" THEN blocks ELSE [markdown |-> blocks]]
    /\ pc' = "done"
    /\ UNCHANGED <<df, limit, kept, skipped, envVars, targets, idx, pngs,
                   blocks, outputs>>

NextScri ==
    \/ ScriMainNoData
    \/ ScriMainDiscover
    \/ ScriLoad
    \/ ScriReadError
    \/ ScriSummarize
    \/ ScriSummarizeRaises
    \/ ScriPlotAndReport
    \/ ScriPlotRaises
    \/ ScriWriteReports

SpecScri == InitScri /\ [][NextScri]_vars

\* ----------------------------------------------- the pipeline's properties
\* the run has ended: main returned, or an exception left it
Stopped == pc \in {"done", "crashed"}

AllArtifacts == {"REPORT.md", "report_summary.json", "noema-report.qd", "dashboard.qd"}

\* the positions of the entries of one kind in a report or a dashboard
KindAt(entries, kind) == {i \in 1..Len(entries) : entries[i].kind = kind}

\* the texts of the lines of one kind, in order
TextsOf(lines, kind) ==
    LET RECURSIVE Pick(_)
        Pick(i) == IF i > Len(lines) THEN <<>>
                   ELSE IF lines[i].kind = kind THEN <<lines[i].text>> \o Pick(i + 1)
                   ELSE Pick(i + 1)
    IN  Pick(1)

\* C1: when the run has ended over a non-empty target list, it ended
\* normally, the targets are in lexicographic order of their full paths, the
\* combined report holds after its header exactly one entry per target in
\* that order (the file's fragment, or a failure notice naming the file with
\* the error), and the summary's item list is exactly the analyzed files.
C1_OneEntryPerTargetInOrder ==
    (Stopped /\ targets # <<>>) =>
        /\ pc = "done"
        /\ \A i \in 1..(Len(targets) - 1) :
              ~StrLess(DataPath(targets[i+1]), DataPath(targets[i]))
        /\ "REPORT.md" \in DOMAIN written
        /\ Len(written["REPORT.md"]) = Len(targets) + 1
        /\ \A i \in 1..Len(targets) :
              LET b == written["REPORT.md"][i + 1]
              IN  \/ b.kind = "fragment" /\ b.lines[1].text = PathName(targets[i])
                  \/ /\ b.kind = "failure"
                     /\ b.file \in {PathName(targets[i]), DataPath(targets[i])}
                     /\ b.error # <<>>
        /\ "report_summary.json" \in DOMAIN written
        /\ "items" \in DOMAIN written["report_summary.json"]
        /\ LET items == written["report_summary.json"].items
               done  == SelectSeq(targets,
                            LAMBDA t : \E i \in 1..Len(targets) :
                                targets[i] = t
                                /\ written["REPORT.md"][i + 1].kind = "fragment")
           IN  /\ Len(items) = Len(done)
               /\ \A k \in 1..Len(items) : items[k].data_file = DataPath(done[k])

\* C2: a run that has ended has ended normally with the four aggregate
\* artifacts written, and with no target the combined report is the note
\* that nothing was found.
C2_EndsWithAllArtifacts ==
    Stopped =>
        /\ pc = "done"
        /\ DOMAIN written = AllArtifacts
        /\ targets = <<>> => written["REPORT.md"][1].kind = "note"

\* load_table has no branch for the file's suffix
Unsupported(rel) ==
    Lower(PathSuffix(rel)) \notin {<<".","c","s","v">>, <<".","x","l","s">>, <<".","x","l","s","x">>, <<".","j","s","o","n">>}

\* scenario D: the run has ended over two input files, one with an
\* unsupported extension and one with a supported one
ScenarioD(u, s) ==
    /\ pc = "done"
    /\ fs = {u, s}
    /\ u # s
    /\ Unsupported(u)
    /\ ~Unsupported(s)

\* C3 as stated: in scenario D, the supported file having been analyzed,
\* the report holds one fragment and one failure notice, and the run ended
\* normally with its artifacts.
C3_ScenarioD ==
    \A u, s \in FileUniverse :
        ( /\ ScenarioD(u, s)
          /\ \E k \in 1..Len(outputs) : outputs[k].data_file = DataPath(s) )
        => /\ Cardinality(KindAt(blocks, "fragment")) = 1
           /\ Cardinality(KindAt(blocks, "failure")) = 1
           /\ DOMAIN written = AllArtifacts

\* C3 amended: in scenario D the scan leaves the unsupported file out: the
\* report holds one entry, about the other file, and no failure notice for
\* the unsupported file; only when the FILE override names the unsupported
\* file is it the one target, and the report holds its failure notice and no
\* fragment.  The run ends normally with its artifacts either way.
C3_ScenarioD_UnsupportedNotScanned ==
    \A u, s \in FileUniverse :
        ScenarioD(u, s) =>
            /\ DOMAIN written = AllArtifacts
            /\ Len(written["REPORT.md"]) = 2
            /\ LET b == written["REPORT.md"][2]
               IN  IF Strip(FILE) = u
                   THEN /\ b.kind = "failure"
                        /\ b.file = PathName(u)
                        /\ b.error = <<"U","n","s","u","p","p","o","r","t","e","d"," ","f","i","l","e",":"," ">> \o PathName(u)
                        /\ written["report_summary.json"].items = <<>>
                   ELSE \/ b.kind = "fragment" /\ b.lines[1].text = PathName(s)
                        \/ b.kind = "failure" /\ b.file = PathName(s)

\* C3 witness: a scan over a.csv and b.txt that analyzed a.csv
C3_Witness ==
    /\ pc = "done"
    /\ fs = { <<"a",".","c","s","v">>, <<"b",".","t","x","t">> }
    /\ FILE = <<>>
    /\ Len(outputs) = 1
    /\ Len(blocks) = 2

\* a character that may stand in an artifact name as it is
SafeChar(c) ==
    IndexIn(c, Lowers) > 0 \/ IndexIn(c, Uppers) > 0 \/ IndexIn(c, Digits) > 0 \/ c = "_"

\* the column name with every other character replaced by an underscore
Sanitized(col) == [i \in 1..Len(col) |-> IF SafeChar(col[i]) THEN col[i] ELSE "_"]

\* C7: the artifact name composed for every column plotted so far holds the
\* column name with each character other than a letter, a digit or an
\* underscore replaced by an underscore.
C7_ArtifactNameSanitized ==
    pc = "plot" =>
        \A k \in 1..Len(pngs) :
            OutPng(CurrentFile, kept[k]) =
                PathStem(CurrentFile) \o <<"_">> \o Sanitized(kept[k]) \o <<"_","h","i","s","t",".","p","n","g">>

\* the dashboard written by the run
Dashboard == written["dashboard.qd"]

\* C8 as stated: every failure notice of the report has a marked entry in
\* the dashboard too; the dashboard has one card per analyzed file and the
\* empty-state message exactly when no file was analyzed.
C8_FailuresOnDashboard ==
    (pc = "done" /\ targets # <<>>) =>
        /\ \A i \in KindAt(written["REPORT.md"], "failure") :
              \E j \in 1..Len(Dashboard) :
                  /\ Dashboard[j].kind = "failure"
                  /\ Dashboard[j].file = written["REPORT.md"][i].file
        /\ Cardinality(KindAt(Dashboard, "card")) = Len(outputs)
        /\ KindAt(Dashboard, "empty") # {} <=> outputs = <<>>

\* C8 amended: every failed file has a marked entry (file name and reason)
\* in the combined report and no entry in the dashboard; the dashboard has
\* one card per analyzed file, in order, and the empty-state message exactly
\* when no file was analyzed (the no-data document when no target was found).
C8_FailuresInReportOnly ==
    pc = "done" =>
        IF targets = <<>>
        THEN KindAt(Dashboard, "nodata") = {1} /\ Len(Dashboard) = 1
        ELSE /\ \A i \in 1..Len(targets) :
                    (\A k \in 1..Len(outputs) : outputs[k].data_file # DataPath(targets[i]))
                    => /\ written["REPORT.md"][i + 1].kind = "failure"
                       /\ written["REPORT.md"][i + 1].file = PathName(targets[i])
                       /\ written["REPORT.md"][i + 1].error # <<>>
                       /\ \A j \in KindAt(Dashboard, "card") :
                             Dashboard[j].name # PathName(targets[i])
             /\ KindAt(Dashboard, "card") \cup KindAt(Dashboard, "empty")
                    = 1..Len(Dashboard)
             /\ IF outputs = <<>>
                THEN KindAt(Dashboard, "empty") = {1} /\ Len(Dashboard) = 1
                ELSE /\ Len(Dashboard) = Len(outputs)
                     /\ \A k \in 1..Len(outputs) :
                           /\ Dashboard[k].kind = "card"
                           /\ Dashboard[k].name = PathName(outputs[k].data_file)

\* C8 witness: a finished run with a failed file and an analyzed file
C8_Witness ==
    /\ pc = "done"
    /\ KindAt(blocks, "failure") # {}
    /\ Len(outputs) = 1
    /\ Dashboard[1].kind = "card"

\* a plots entry that records a failed plot
IsFailedEntry(p) == Len(p) >= 9 /\ SubSeq(p, 1, 9) = <<"(","f","a","i","l","e","d",":"," ">>
IsPlottedEntry(p) == ~IsFailedEntry(p)

\* C9: from the plot loop the analysis only goes on: either the next kept
\* column, in classifier order, gets its entry (its image name, or the
\* placeholder of its failure), or, every kept column having its entry, the
\* file is assembled: its result is appended with these entries, and its
\* fragment holds one image reference per plotted column and one text item
\* per failed column, a failed column never being an image reference.
C9_PlotFailureIsolated ==
    [][ pc = "plot" =>
          \/ /\ pc' = "plot"
             /\ Len(pngs) < Len(kept)
             /\ kept' = kept /\ df' = df /\ idx' = idx
             /\ blocks' = blocks /\ outputs' = outputs
             /\ Len(pngs') = Len(pngs) + 1
             /\ SubSeq(pngs', 1, Len(pngs)) = pngs
             /\ LET col == kept[Len(pngs')]
                IN  \/ /\ pngs'[Len(pngs')] = PathName(OutPng(CurrentFile, col))
                       /\ IsPlottedEntry(pngs'[Len(pngs')])
                    \/ \E e \in PlotErrors :
                       /\ pngs'[Len(pngs')] = FailedEntry(col, e)
                       /\ IsFailedEntry(pngs'[Len(pngs')])
          \/ /\ pc' \in {"load", "write"}
             /\ Len(pngs) = Len(kept)
             /\ Len(outputs') = Len(outputs) + 1
             /\ Len(blocks') = Len(blocks) + 1
             /\ LET res == outputs'[Len(outputs')]
                IN  /\ res.plots = pngs
                    /\ blocks'[Len(blocks')].kind = "fragment"
                    /\ blocks'[Len(blocks')].lines = res.report_md
                    /\ TextsOf(res.report_md, "image") = SelectSeq(pngs, IsPlottedEntry)
                    /\ TextsOf(res.report_md, "item") = SelectSeq(pngs, IsFailedEntry)
      ]_vars

\* C9 witness: an assembled file whose first kept column failed to plot,
\* with a message that ends in ".png", and whose second column was plotted
C9_Witness ==
    \E k \in 1..Len(outputs) :
        /\ Len(outputs[k].plots) = 2
        /\ outputs[k].plots[1] = FailedEntry(<<"a","/","b">>, <<"c","a","n","n","o","t"," ","s","a","v","e"," ","x",".","p","n","g">>)
        /\ IsPlottedEntry(outputs[k].plots[2])
        /\ TextsOf(outputs[k].report_md, "image") = <<outputs[k].plots[2]>>

\* -------------------------------------------- the classifier's properties
\* the names of the numeric columns of the table
NumericNames == {df[i].name : i \in {j \in 1..Len(df) : df[j].dtype = "number"}}

\* the elements of a sequence
Range(seq) == {seq[i] : i \in 1..Len(seq)}

\* the coercible cells of column c, as positions and as distinct values
PresentAt(c) == {i \in 1..Len(c.vals) : c.vals[i] >= 0}
DistinctOf(c) == {c.vals[i] : i \in PresentAt(c)}

\* the signals of the decision procedure, stated on the column's cells
AllIntegral(c) == \A v \in DistinctOf(c) : v % 2 = 0
NonDecreasing(c) == \A i, j \in PresentAt(c) : i < j => c.vals[i] <= c.vals[j]
NonIncreasing(c) == \A i, j \in PresentAt(c) : i < j => c.vals[i] >= c.vals[j]
UniqueOver(c, num, den) ==
    den * Cardinality(DistinctOf(c)) > num * Cardinality(PresentAt(c))

\* the verdict the decision procedure assigns to column c
ProcedureVerdict(c) ==
    IF PresentAt(c) = {} THEN "all-NaN"
    ELSE IF Cardinality(DistinctOf(c)) <= 1 THEN "constant"
    ELSE IF \/ ID_LIKE_PATTERN(c.name) /\ (UniqueOver(c, 1, 2) \/ AllIntegral(c))
            \/ AllIntegral(c) /\ \/ UniqueOver(c, 4, 5)
                                 \/ NonDecreasing(c) \/ NonIncreasing(c)
         THEN "likely-ID/index"
    ELSE "kept"

\* C4 as stated: every numeric column with an identifier-like name and a
\* unique-value ratio above 0.5 is skipped as likely-identifier and not kept.
C4_IdNameHighRatioSkipped ==
    pc = "classified" =>
        \A i \in 1..Len(df) :
            ( /\ df[i].dtype = "number"
              /\ ID_LIKE_PATTERN(df[i].name)
              /\ PresentAt(df[i]) # {}
              /\ UniqueOver(df[i], 1, 2) )
            => /\ df[i].name \in DOMAIN skipped
               /\ skipped[df[i].name] = "likely-ID/index"
               /\ df[i].name \notin Range(kept)

\* C4 amended: every numeric column with an identifier-like name, a
\* unique-value ratio above 0.5 and at least two distinct coercible values
\* is skipped as likely-identifier and not kept.
C4_IdNameHighRatioSkippedUnlessConstant ==
    pc = "classified" =>
        \A i \in 1..Len(df) :
            ( /\ df[i].dtype = "number"
              /\ ID_LIKE_PATTERN(df[i].name)
              /\ Cardinality(DistinctOf(df[i])) >= 2
              /\ UniqueOver(df[i], 1, 2) )
            => /\ df[i].name \in DOMAIN skipped
               /\ skipped[df[i].name] = "likely-ID/index"
               /\ df[i].name \notin Range(kept)

\* C4 witness: a classified table with an identifier-named column whose ratio
\* is above 0.5, with two distinct values one of which is fractional (so only
\* the name and the ratio can skip it), the name matching only when case is
\* ignored
C4_Witness ==
    /\ pc = "classified"
    /\ \E i \in 1..Len(df) :
        /\ df[i].name = <<"S","a","m","p","l","e","_","I","D">>
        /\ Cardinality(DistinctOf(df[i])) = 2
        /\ UniqueOver(df[i], 1, 2)
        /\ ~AllIntegral(df[i])
        /\ skipped[df[i].name] = "likely-ID/index"

\* the limit as an integer, 0 for None
LimitValue == IF limit = None THEN 0 ELSE CHOOSE k \in limit : TRUE

Min(a, b) == IF a <= b THEN a ELSE b

\* C5: with limit k > 0 and m columns kept without a limit, exactly
\* min(k, m) columns are kept, the first min(k, m) of the sorted unlimited
\* list; the skip map is the unlimited run's, so a column cut by the cap is
\* in neither result and is told apart from a heuristically skipped one.
C5_CapKeepsPrefix ==
    (pc = "classified" /\ LimitValue > 0) =>
        LET unlimited == SortByMissing(df, Candidates(df))
            m == Len(unlimited)
            cut == {unlimited[i] : i \in (Min(LimitValue, m) + 1)..m}
        IN  /\ Len(kept) = Min(LimitValue, m)
            /\ kept = SubSeq(unlimited, 1, Min(LimitValue, m))
            /\ skipped = Skipped(df)
            /\ \A c \in cut : c \notin DOMAIN skipped /\ c \notin Range(kept)
            /\ \A c \in DOMAIN skipped : ProcedureVerdict(ColumnOf(df, c)) # "kept"

\* C5 witness: a cap of 1 that cuts one column while another is skipped
C5_Witness ==
    /\ pc = "classified"
    /\ LimitValue = 1
    /\ Len(kept) = 1
    /\ Cardinality(NumericNames \ (Range(kept) \cup DOMAIN skipped)) = 1
    /\ DOMAIN skipped # {}

\* C6: the kept list is in ascending order of the missing fraction of the
\* original column, and kept columns of equal missing fraction are in the
\* table's column order.
C6_KeptSortedStable ==
    pc = "classified" =>
        \A i, j \in 1..Len(kept) :
            i < j =>
              LET mi == MissingCount(df, kept[i])
                  mj == MissingCount(df, kept[j])
              IN  /\ mi * NRows(df) <= mj * NRows(df)
                  /\ mi = mj => ColumnIndex(df, kept[i]) < ColumnIndex(df, kept[j])

\* C6 witness: three kept columns, the first of the table moved last by its
\* missing fraction, the other two tied and in column order
C6_Witness ==
    /\ pc = "classified"
    /\ Len(kept) = 3
    /\ kept[3] = df[1].name
    /\ MissingCount(df, kept[1]) = MissingCount(df, kept[2])
    /\ MissingCount(df, kept[2]) < MissingCount(df, kept[3])

\* C10: with no limit every numeric column gets exactly the verdict of the
\* decision procedure (all-missing, then constant, then likely-identifier,
\* otherwise kept); the kept list and the skip map are disjoint, cover
\* exactly the numeric columns, and the kept list repeats no column.
C10_OneVerdictPerColumn ==
    (pc = "classified" /\ LimitValue <= 0) =>
        /\ \A i \in 1..Len(df) :
              df[i].dtype = "number" =>
                IF ProcedureVerdict(df[i]) = "kept"
                THEN df[i].name \in Range(kept) /\ df[i].name \notin DOMAIN skipped
                ELSE /\ df[i].name \notin Range(kept)
                     /\ df[i].name \in DOMAIN skipped
                     /\ skipped[df[i].name] = ProcedureVerdict(df[i])
        /\ Range(kept) \cap DOMAIN skipped = {}
        /\ Range(kept) \cup DOMAIN skipped = NumericNames
        /\ Cardinality(Range(kept)) = Len(kept)

\* C10 witness: an unlimited run over a table with a text column, a kept
\* column and a constant column
C10_Witness ==
    /\ pc = "classified"
    /\ limit = None
    /\ Len(df) = 3
    /\ \E i \in 1..Len(df) : df[i].dtype = "object"
    /\ Len(kept) = 1
    /\ \E c \in DOMAIN skipped : skipped[c] = "constant"

============================================================================
